---------------------------- MODULE Spec2Model ----------------------------
(***************************************************************************)
(* Model of serve_maps.py: a static-file HTTP server built from            *)
(* socketserver.TCPServer and a SimpleHTTPRequestHandler subclass whose    *)
(* end_headers adds two headers.  The module has two layers:               *)
(*   - the response a handler writes for one request (pure operators over  *)
(*     a handler record: request_version, command, headers buffer, wfile); *)
(*   - the processes that run the script (chdir, bind, banner, serve loop),*)
(*     the port they compete for and the connections clients open.         *)
(***************************************************************************)
EXTENDS Integers, Sequences, FiniteSets, TLC

(* ------------------------------ bounds --------------------------------- *)

\* Instances of the script that are started during one run of the model.
NProc == 2
\* Connections that clients open during one run of the model.
MaxConn == 2

(* --------------------------- program constants -------------------------- *)

PORT == 8083
BindAddress == "0.0.0.0"
\* The address the listening socket is bound to.
ServerAddress == <<BindAddress, PORT>>
WorkDir == "/home/runner/workspace"
\* The directory the process is started in, before os.chdir.
InheritedDir == "inherited"

Procs == 1..NProc
Conns == 1..MaxConn

(* ----------------------- the response to one request -------------------- *)

\* What the request path resolves to under the working directory.
Targets ==
  {"file", "missing", "unreadable", "dir_noslash", "dir_index", "dir_list", "dir_nolist"}

\* A request as the handler reads it: the number of words of the request line,
\* its last word when there are three or more ("none" otherwise), the first
\* word, what the path resolves to, whether an If-Modified-Since header is
\* present that the file's mtime satisfies, and whether the request line
\* exceeds 65536 bytes.
Request(w, v, c, t, i, l) ==
  [words |-> w, version |-> v, command |-> c, target |-> t, ims |-> i, long |-> l]

Requests ==
  {Request(3, v, c, t, FALSE, FALSE) :
     v \in {"HTTP/1.0", "HTTP/1.1"}, c \in {"GET", "HEAD"}, t \in Targets}
  \cup {Request(3, v, c, "file", TRUE, FALSE) :
     v \in {"HTTP/1.0", "HTTP/1.1"}, c \in {"GET", "HEAD"}}
  \cup {Request(3, v, "POST", t, FALSE, FALSE) :
     v \in {"HTTP/1.0", "HTTP/1.1"}, t \in {"file", "missing"}}
  \cup {Request(2, "none", "GET", t, FALSE, FALSE) : t \in Targets}
  \cup {Request(2, "none", "POST", "file", FALSE, FALSE),
        Request(3, "bad", "GET", "file", FALSE, FALSE),
        Request(3, "HTTP/2.0", "GET", "file", FALSE, FALSE),
        Request(1, "none", "GET", "file", FALSE, FALSE),
        Request(4, "HTTP/1.1", "GET", "file", FALSE, FALSE),
        Request(0, "none", "GET", "file", FALSE, FALSE),
        Request(3, "HTTP/1.1", "GET", "file", FALSE, TRUE)}

\* One item written to the connection.
StatusLine(code) == [k |-> "status", code |-> code, name |-> "", value |-> ""]
HeaderLine(n, v) == [k |-> "header", code |-> 0, name |-> n, value |-> v]
BlankLine == [k |-> "blank", code |-> 0, name |-> "", value |-> ""]
Body(what) == [k |-> "body", code |-> 0, name |-> what, value |-> ""]

\* A handler instance: request_version, command, _headers_buffer, wfile.
NewHandler == [ver |-> "HTTP/0.9", command |-> "None", buf |-> <<>>, out |-> <<>>]

send_response_only(h, code) ==
  IF h.ver # "HTTP/0.9" THEN [h EXCEPT !.buf = Append(@, StatusLine(code))] ELSE h

send_header(h, keyword, value) ==
  IF h.ver # "HTTP/0.9" THEN [h EXCEPT !.buf = Append(@, HeaderLine(keyword, value))] ELSE h

send_response(h, code) ==
  send_header(send_header(send_response_only(h, code), "Server", "-"), "Date", "-")

flush_headers(h) == [h EXCEPT !.out = @ \o h.buf, !.buf = <<>>]

\* BaseHTTPRequestHandler.end_headers, reached through super().end_headers().
base_end_headers(h) ==
  IF h.ver # "HTTP/0.9" THEN flush_headers([h EXCEPT !.buf = Append(@, BlankLine)]) ELSE h

\* Mutants of end_headers: Cache-Control forgotten; super().end_headers() not
\* called.
end_headers_no_cache_control(h) ==
  base_end_headers(send_header(h, "Access-Control-Allow-Origin", "*"))

end_headers_no_super(h) ==
  send_header(send_header(h, "Access-Control-Allow-Origin", "*"), "Cache-Control", "no-cache")

\* CustomHTTPRequestHandler.end_headers.
end_headers(h) ==
  base_end_headers(
    send_header(send_header(h, "Access-Control-Allow-Origin", "*"),
                "Cache-Control", "no-cache"))

\* The handler class in use: the subclass (custom) or the inherited one.
EndHeaders(h, custom) == IF custom THEN end_headers(h) ELSE base_end_headers(h)

write(h, what) == [h EXCEPT !.out = Append(@, Body(what))]

send_error(h, code, custom) ==
  LET h1 == send_header(send_response(h, code), "Connection", "close")
      h2 == send_header(send_header(h1, "Content-Type", "-"), "Content-Length", "-")
      h3 == EndHeaders(h2, custom)
  IN  IF h.command # "HEAD" THEN write(h3, "error_page") ELSE h3

\* send_head's answer: the handler after the headers, and the file object to
\* copy ("" for None).
HeadResult(h, f) == [h |-> h, f |-> f]

FileHeaders(h) ==
  send_header(send_header(send_header(send_response(h, 200),
     "Content-type", "-"), "Content-Length", "-"), "Last-Modified", "-")

send_file(h, req, content, custom) ==
  IF req.ims
     THEN HeadResult(EndHeaders(send_response(h, 304), custom), "")
     ELSE HeadResult(EndHeaders(FileHeaders(h), custom), content)

list_directory(h, req, custom) ==
  IF req.target = "dir_nolist"
     THEN HeadResult(send_error(h, 404, custom), "")
     ELSE HeadResult(EndHeaders(send_header(send_header(send_response(h, 200),
                 "Content-type", "-"), "Content-Length", "-"), custom), "listing")

send_head(h, req, custom) ==
  CASE req.target = "dir_noslash" ->
         HeadResult(EndHeaders(send_header(send_header(send_response(h, 301),
                "Location", "-"), "Content-Length", "0"), custom), "")
    [] req.target = "dir_index" -> send_file(h, req, "index", custom)
    [] req.target \in {"dir_list", "dir_nolist"} -> list_directory(h, req, custom)
    [] req.target \in {"missing", "unreadable"} -> HeadResult(send_error(h, 404, custom), "")
    [] OTHER -> send_file(h, req, "file", custom)

do_GET(h, req, custom) ==
  LET r == send_head(h, req, custom) IN IF r.f # "" THEN write(r.h, r.f) ELSE r.h

do_HEAD(h, req, custom) == send_head(h, req, custom).h

\* parse_request: the handler after parsing and whether parsing succeeded (on
\* failure the error response, if any, has been written).
Parsed(h, ok) == [h |-> h, ok |-> ok]

parse_request(h, req, custom) ==
  LET h0 == [h EXCEPT !.ver = "HTTP/0.9", !.command = "None"]
      h1 == IF req.words >= 3 THEN [h0 EXCEPT !.ver = req.version] ELSE h0
  IN  CASE req.words = 0 -> Parsed(h0, FALSE)
        [] req.words >= 3 /\ req.version = "bad" -> Parsed(send_error(h0, 400, custom), FALSE)
        [] req.words >= 3 /\ req.version = "HTTP/2.0" ->
             Parsed(send_error(h0, 505, custom), FALSE)
        [] req.words \notin {2, 3} -> Parsed(send_error(h1, 400, custom), FALSE)
        [] req.words = 2 /\ req.command # "GET" -> Parsed(send_error(h1, 400, custom), FALSE)
        [] OTHER -> Parsed([h1 EXCEPT !.command = req.command], TRUE)

handle_one_request(req, custom) ==
  IF req.long
     THEN send_error([NewHandler EXCEPT !.ver = "", !.command = ""], 414, custom)
     ELSE LET p == parse_request(NewHandler, req, custom)
          IN  CASE ~p.ok -> p.h
                [] p.h.command = "GET" -> do_GET(p.h, req, custom)
                [] p.h.command = "HEAD" -> do_HEAD(p.h, req, custom)
                [] OTHER -> send_error(p.h, 501, custom)

\* The bytes CustomHTTPRequestHandler puts on the connection for a request,
\* and those the inherited SimpleHTTPRequestHandler would put.
Respond(req) == handle_one_request(req, TRUE).out
InheritedRespond(req) == handle_one_request(req, FALSE).out


(* ------------------------------ the state ------------------------------- *)

VARIABLES
  pc,        \* per process: "idle" (not started), "chdir", "bind", "banner",
             \* "listdir", "select" (serve_forever waiting for a connection),
             \* "handling" (serve_forever inside a request handler), "done"
  cwd,       \* per process: its working directory
  trace,     \* per process: what it has done and printed, in order
  exit,      \* per process: <<>> while it runs, <<status>> once it has exited
  cause,     \* per process: "none", "exception" or "signal" (why it ended)
  before,    \* per process: the processes that had ended when it was started
  dirState,  \* the directory WorkDir: "ok", "missing" or "unlistable"
  listener,  \* the process whose socket listens on PORT, 0 when none does
  lingering, \* closed connections of PORT still held by the kernel (TIME_WAIT)
  conn,      \* per connection: "new", "queued", "handling", "closed", "reset"
  backlog,   \* connections completed by the kernel, not yet accepted
  accepted,  \* per process: the connections it accepted, in order
  roots,     \* per process: the directories its requests were resolved against
  capture,   \* whether the traffic of the connections is captured
  lastReq,   \* captured: <<>> or <<the request handled last>>
  wire       \* captured: what the handler wrote to the connection for it

vars ==
  <<pc, cwd, trace, exit, cause, before, dirState, listener, lingering, conn, backlog,
    accepted, roots, capture, lastReq, wire>>

procVars == <<pc, cwd, trace, exit, cause, before>>
netVars == <<listener, lingering, conn, backlog, accepted>>
reqVars == <<roots, capture, lastReq, wire>>

\* No process started, no connection opened; the directory is in any of its
\* states.
Start ==
  /\ pc = [p \in Procs |-> "idle"]
  /\ cwd = [p \in Procs |-> InheritedDir]
  /\ trace = [p \in Procs |-> <<>>]
  /\ exit = [p \in Procs |-> <<>>]
  /\ cause = [p \in Procs |-> "none"]
  /\ before = [p \in Procs |-> {}]
  /\ dirState \in {"ok", "missing", "unlistable"}
  /\ listener = 0
  /\ lingering = 0
  /\ conn = [c \in Conns |-> "new"]
  /\ backlog = <<>>
  /\ accepted = [p \in Procs |-> <<>>]
  /\ roots = [p \in Procs |-> {}]
  /\ lastReq = <<>>
  /\ wire = <<>>

Init == Start /\ capture = FALSE

(* ------------------------------ helpers --------------------------------- *)

Range(s) == {s[i] : i \in 1..Len(s)}
Last(s) == s[Len(s)]

\* The connection a process is handling, as a set (empty or one element).
Current(p) == {c \in Range(accepted[p]) : conn[c] = "handling"}

\* The address is in use: a socket listens on PORT, or the kernel still holds
\* a closed connection of PORT.  TCPServer leaves allow_reuse_address False,
\* so server_bind sets no SO_REUSEADDR and bind() fails in both cases.
AddressInUse == listener # 0 \/ lingering > 0

\* The process exits: status and cause are recorded, pc becomes "done".
Exited(p, status, why) ==
  /\ pc' = [pc EXCEPT ![p] = "done"]
  /\ exit' = [exit EXCEPT ![p] = <<status>>]
  /\ cause' = [cause EXCEPT ![p] = why]

\* The kernel closes the sockets of a process that ends: the listening socket
\* with the connections waiting in its backlog, and the connection being
\* handled, which may stay in TIME_WAIT (linger = 1) or not (linger = 0).
CloseSockets(p, linger) ==
  /\ listener' = IF listener = p THEN 0 ELSE listener
  /\ backlog' = IF listener = p THEN <<>> ELSE backlog
  /\ conn' = [c \in Conns |->
               IF (listener = p /\ c \in Range(backlog)) \/ c \in Current(p)
                  THEN "reset" ELSE conn[c]]
  /\ lingering' = IF Current(p) # {} THEN lingering + linger ELSE lingering
  /\ UNCHANGED accepted

(* ------------------------------ startup --------------------------------- *)

\* The script is started.  Instances are numbered in the order they are
\* started.
Launch(p) ==
  /\ pc[p] = "idle"
  /\ \A q \in Procs : q < p => pc[q] # "idle"
  /\ pc' = [pc EXCEPT ![p] = "chdir"]
  /\ before' = [before EXCEPT ![p] = {q \in Procs : pc[q] = "done"}]
  /\ UNCHANGED <<cwd, trace, exit, cause, dirState, netVars, reqVars>>

\* os.chdir succeeds.
Chdir(p) ==
  /\ pc[p] = "chdir"
  /\ dirState # "missing"
  /\ cwd' = [cwd EXCEPT ![p] = WorkDir]
  /\ trace' = [trace EXCEPT ![p] = Append(@, "chdir")]
  /\ pc' = [pc EXCEPT ![p] = "bind"]
  /\ UNCHANGED <<exit, cause, before, dirState, netVars, reqVars>>

\* os.chdir raises, outside the try block: the interpreter prints the
\* traceback and exits with status 1.
ChdirFails(p) ==
  /\ pc[p] = "chdir"
  /\ dirState = "missing"
  /\ trace' = [trace EXCEPT ![p] = Append(@, "traceback")]
  /\ Exited(p, 1, "exception")
  /\ UNCHANGED <<cwd, before, dirState, netVars, reqVars>>

\* Mutant of BindSucceeds: the socket is bound with reuse, whoever listens.
BindSteals(p) ==
  /\ pc[p] = "bind"
  /\ listener' = p
  /\ trace' = [trace EXCEPT ![p] = Append(@, "bind")]
  /\ pc' = [pc EXCEPT ![p] = "banner"]
  /\ UNCHANGED <<cwd, exit, cause, before, dirState, lingering, conn, backlog, accepted, reqVars>>

\* TCPServer((BindAddress, PORT), Handler): server_bind and server_activate.
BindSucceeds(p) ==
  /\ pc[p] = "bind"
  /\ ~AddressInUse
  /\ listener' = p
  /\ trace' = [trace EXCEPT ![p] = Append(@, "bind")]
  /\ pc' = [pc EXCEPT ![p] = "banner"]
  /\ UNCHANGED <<cwd, exit, cause, before, dirState, lingering, conn, backlog, accepted, reqVars>>

\* The except clause: print the error, sys.exit(1).
ServerError(p) ==
  /\ trace' = [trace EXCEPT ![p] = Append(@, "server_error")]
  /\ Exited(p, 1, "exception")

\* Mutant of BindFails: the banner is printed before the server is built.
BindFailsAfterBanner(p) ==
  /\ pc[p] = "bind"
  /\ AddressInUse
  /\ trace' = [trace EXCEPT ![p] = @ \o <<"banner", "server_error">>]
  /\ Exited(p, 1, "exception")
  /\ UNCHANGED <<cwd, before, dirState, netVars, reqVars>>

\* TCPServer(...) raises OSError (address already in use).
BindFails(p) ==
  /\ pc[p] = "bind"
  /\ AddressInUse
  /\ ServerError(p)
  /\ UNCHANGED <<cwd, before, dirState, netVars, reqVars>>

\* The six print calls that need no file access.
PrintBanner(p) ==
  /\ pc[p] = "banner"
  /\ trace' = [trace EXCEPT ![p] = Append(@, "banner")]
  /\ pc' = [pc EXCEPT ![p] = "listdir"]
  /\ UNCHANGED <<cwd, exit, cause, before, dirState, netVars, reqVars>>

\* print(... os.listdir('.')), then serve_forever is entered.
PrintListing(p) ==
  /\ pc[p] = "listdir"
  /\ dirState = "ok"
  /\ trace' = [trace EXCEPT ![p] = @ \o <<"listing", "serve">>]
  /\ pc' = [pc EXCEPT ![p] = "select"]
  /\ UNCHANGED <<cwd, exit, cause, before, dirState, netVars, reqVars>>

\* os.listdir raises: the with block closes the server, the except clause runs.
ListingFails(p) ==
  /\ pc[p] = "listdir"
  /\ dirState = "unlistable"
  /\ ServerError(p)
  /\ CloseSockets(p, 0)
  /\ UNCHANGED <<cwd, before, dirState, reqVars>>


(* ----------------------------- the serve loop --------------------------- *)

\* A client connects: the kernel completes the handshake on the listening
\* socket and queues the connection.  Connections are numbered in the order
\* they are opened.
Connect(c) ==
  /\ conn[c] = "new"
  /\ \A d \in Conns : d < c => conn[d] # "new"
  /\ listener # 0
  /\ conn' = [conn EXCEPT ![c] = "queued"]
  /\ backlog' = Append(backlog, c)
  /\ UNCHANGED <<procVars, dirState, listener, lingering, accepted, reqVars>>

\* Mutant of Accept: each request is handed to a thread of its own, so the
\* loop accepts again while a handler runs.
AcceptThreaded(p) ==
  /\ pc[p] \in {"select", "handling"}
  /\ listener = p
  /\ backlog # <<>>
  /\ conn' = [conn EXCEPT ![Head(backlog)] = "handling"]
  /\ backlog' = Tail(backlog)
  /\ accepted' = [accepted EXCEPT ![p] = Append(@, Head(backlog))]
  /\ pc' = [pc EXCEPT ![p] = "handling"]
  /\ UNCHANGED <<cwd, trace, exit, cause, before, dirState, listener, lingering, reqVars>>

\* serve_forever: select reports the socket readable, get_request accepts the
\* oldest queued connection and process_request starts its handler.
Accept(p) ==
  /\ pc[p] = "select"
  /\ listener = p
  /\ backlog # <<>>
  /\ conn' = [conn EXCEPT ![Head(backlog)] = "handling"]
  /\ backlog' = Tail(backlog)
  /\ accepted' = [accepted EXCEPT ![p] = Append(@, Head(backlog))]
  /\ pc' = [pc EXCEPT ![p] = "handling"]
  /\ UNCHANGED <<cwd, trace, exit, cause, before, dirState, listener, lingering, reqVars>>

\* The requests a handler may read.  Without capture a request leaves no mark
\* on the state, so one of them stands for all.
Incoming == IF capture THEN Requests ELSE {CHOOSE req \in Requests : TRUE}

\* The handler reads one request, writes the response (the server speaks
\* HTTP/1.0, so the connection is not kept alive), shutdown_request closes the
\* connection and the loop returns to select.
FinishRequest(p) ==
  /\ pc[p] = "handling"
  /\ \E req \in Incoming, linger \in {0, 1} :
       /\ lastReq' = IF capture THEN <<req>> ELSE <<>>
       /\ wire' = IF capture THEN Respond(req) ELSE <<>>
       /\ lingering' = lingering + linger
  /\ roots' = [roots EXCEPT ![p] = @ \cup {cwd[p]}]
  /\ UNCHANGED capture
  /\ conn' = [c \in Conns |-> IF c \in Current(p) THEN "closed" ELSE conn[c]]
  /\ pc' = [pc EXCEPT ![p] = "select"]
  /\ UNCHANGED <<cwd, trace, exit, cause, before, dirState, listener, backlog, accepted>>

\* Mutant of HandlerRaises: the exception is not caught in the loop; it leaves
\* serve_forever and reaches the except clause.
HandlerRaisesUncaught(p) ==
  /\ pc[p] = "handling"
  /\ ServerError(p)
  /\ CloseSockets(p, 0)
  /\ UNCHANGED <<cwd, before, dirState, reqVars>>

\* The handler raises (the client resets the connection, say):
\* _handle_request_noblock catches the exception, handle_error reports it,
\* shutdown_request closes the connection and the loop returns to select.
HandlerRaises(p) ==
  /\ pc[p] = "handling"
  /\ \E linger \in {0, 1} : lingering' = lingering + linger
  /\ conn' = [c \in Conns |-> IF c \in Current(p) THEN "closed" ELSE conn[c]]
  /\ pc' = [pc EXCEPT ![p] = "select"]
  /\ lastReq' = <<>>
  /\ wire' = <<>>
  /\ UNCHANGED <<cwd, trace, exit, cause, before, dirState, listener, backlog, accepted, roots,
                 capture>>

\* Mutant of ServeForeverRaises: the failure is answered by binding again.
ServeForeverRestarts(p) ==
  /\ pc[p] = "select"
  /\ pc' = [pc EXCEPT ![p] = "bind"]
  /\ CloseSockets(p, 0)
  /\ UNCHANGED <<cwd, trace, exit, cause, before, dirState, reqVars>>

\* serve_forever itself raises (the selector fails): the with block closes the
\* server and the except clause runs.
ServeForeverRaises(p) ==
  /\ pc[p] = "select"
  /\ ServerError(p)
  /\ CloseSockets(p, 0)
  /\ UNCHANGED <<cwd, before, dirState, reqVars>>

(* ----------------------------- the environment -------------------------- *)

\* The exit status of a process ended by SIGINT or SIGTERM, as the shell
\* reports it (128 + the signal's number).
SignalStatuses == {130, 143}

\* Mutant of Signal: a handler installed for the signal ends the process
\* through sys.exit(0).
SignalExitsZero(p) ==
  /\ pc[p] \notin {"idle", "done"}
  /\ \E linger \in {0, 1} :
       /\ Exited(p, 0, "signal")
       /\ CloseSockets(p, linger)
  /\ UNCHANGED <<cwd, trace, before, dirState, reqVars>>

\* The process is ended by a signal; the script installs no handler.
Signal(p) ==
  /\ pc[p] \notin {"idle", "done"}
  /\ \E status \in SignalStatuses, linger \in {0, 1} :
       /\ Exited(p, status, "signal")
       /\ CloseSockets(p, linger)
  /\ UNCHANGED <<cwd, trace, before, dirState, reqVars>>

\* The kernel drops a connection that stayed in TIME_WAIT.
LingerExpires ==
  /\ lingering > 0
  /\ lingering' = lingering - 1
  /\ UNCHANGED <<procVars, dirState, listener, conn, backlog, accepted, reqVars>>

(* ---------------------------- specification ----------------------------- *)

Next ==
  \/ \E p \in Procs : Launch(p)
  \/ \E p \in Procs : Chdir(p)
  \/ \E p \in Procs : ChdirFails(p)
  \/ \E p \in Procs : BindSucceeds(p)
  \/ \E p \in Procs : BindFails(p)
  \/ \E p \in Procs : PrintBanner(p)
  \/ \E p \in Procs : PrintListing(p)
  \/ \E p \in Procs : ListingFails(p)
  \/ \E c \in Conns : Connect(c)
  \/ \E p \in Procs : Accept(p)
  \/ \E p \in Procs : FinishRequest(p)
  \/ \E p \in Procs : HandlerRaises(p)
  \/ \E p \in Procs : ServeForeverRaises(p)
  \/ \E p \in Procs : Signal(p)
  \/ LingerExpires

Spec == Init /\ [][Next]_vars

\* One instance alone, with the traffic of its connections captured.
CaptureInit == Start /\ capture = TRUE

CaptureNext ==
  \/ Launch(1)
  \/ Chdir(1)
  \/ ChdirFails(1)
  \/ BindSucceeds(1)
  \/ PrintBanner(1)
  \/ PrintListing(1)
  \/ ListingFails(1)
  \/ \E c \in Conns : Connect(c)
  \/ Accept(1)
  \/ FinishRequest(1)
  \/ HandlerRaises(1)
  \/ ServeForeverRaises(1)
  \/ Signal(1)

CaptureSpec == CaptureInit /\ [][CaptureNext]_vars


(* --------------------- reading a captured response ---------------------- *)

CorsHeader == HeaderLine("Access-Control-Allow-Origin", "*")
CacheHeader == HeaderLine("Cache-Control", "no-cache")

Occurrences(w, item) == Cardinality({i \in 1..Len(w) : w[i] = item})

\* Every item of kind header or status comes before every body item.
HeadBeforeBody(w) ==
  \A i, j \in 1..Len(w) : (w[i].k = "body" /\ w[j].k # "body") => j < i

\* The status code on the wire, 0 when the response has no status line.
StatusOf(w) == IF w # <<>> /\ w[1].k = "status" THEN w[1].code ELSE 0

IsBody(x) == x.k = "body"
BodyOf(w) == SelectSeq(w, IsBody)

NotAdded(x) == x \notin {CorsHeader, CacheHeader}
WithoutAdded(w) == SelectSeq(w, NotAdded)

\* The request line names a version the handler records before it answers:
\* three or more words ending in HTTP/1.0 or HTTP/1.1 (an over-long request
\* line is answered under an empty version, with headers as well).
NamesVersion(req) ==
  req.long \/ (req.words >= 3 /\ req.version \in {"HTTP/1.0", "HTTP/1.1"})

\* A well-formed HTTP/1.x request line.
WellFormed(req) ==
  ~req.long /\ req.words = 3 /\ req.version \in {"HTTP/1.0", "HTTP/1.1"}

(* -------------------------------- claims -------------------------------- *)

\* C1 as stated: every completed response, whatever the request, carries
\* Access-Control-Allow-Origin: * and Cache-Control: no-cache exactly once
\* each, before the first body byte.
C1_EveryResponseHasBothHeaders ==
  wire # <<>> =>
    /\ Occurrences(wire, CorsHeader) = 1
    /\ Occurrences(wire, CacheHeader) = 1
    /\ HeadBeforeBody(wire)

\* C1 amended: a completed response to a request whose request line names
\* HTTP/1.0 or HTTP/1.1 (or is over-long), whatever its status, carries each
\* of the two headers exactly once, before the first body byte; a response to
\* any other request line (HTTP/0.9, one word, a bad or unsupported version)
\* has no status line and no header at all.
C1_HeadersOnceUnlessHttp09 ==
  (lastReq # <<>> /\ wire # <<>>) =>
    IF NamesVersion(lastReq[1])
       THEN /\ Occurrences(wire, CorsHeader) = 1
            /\ Occurrences(wire, CacheHeader) = 1
            /\ HeadBeforeBody(wire)
            /\ StatusOf(wire) # 0
       ELSE \A i \in 1..Len(wire) : wire[i].k = "body"

\* C1 witness: an error response (404 for a missing file) that carries both
\* headers once, ahead of its body.
C1_Witness ==
  /\ lastReq = <<Request(3, "HTTP/1.1", "GET", "missing", FALSE, FALSE)>>
  /\ StatusOf(wire) = 404
  /\ Occurrences(wire, CorsHeader) = 1
  /\ Occurrences(wire, CacheHeader) = 1
  /\ BodyOf(wire) # <<>>

\* The refinement part of C2: status and body are those of the inherited
\* handler, and removing the two added header lines gives its response.
SameAsInherited ==
  lastReq # <<>> =>
    LET base == InheritedRespond(lastReq[1])
    IN  /\ StatusOf(wire) = StatusOf(base)
        /\ BodyOf(wire) = BodyOf(base)
        /\ WithoutAdded(wire) = base
        /\ Len(wire) = Len(base) + (IF NamesVersion(lastReq[1]) THEN 2 ELSE 0)

\* C2 as stated: the response is the inherited one plus two header lines, a
\* request for an existing file returns 200 with the file's bytes, and a
\* request for a path that does not exist returns 404.
C2_SameAsInheritedFile200Missing404 ==
  /\ SameAsInherited
  /\ (lastReq # <<>> /\ WellFormed(lastReq[1])) =>
       /\ lastReq[1].target = "file" =>
            (StatusOf(wire) = 200 /\ BodyOf(wire) = <<Body("file")>>)
       /\ lastReq[1].target = "missing" => StatusOf(wire) = 404

\* C2 amended: the response is the inherited one plus two header lines; a
\* well-formed GET for an existing readable file, without an If-Modified-Since
\* the file satisfies, returns 200 with the file's bytes (HEAD returns 200
\* without a body, a satisfied If-Modified-Since 304 without a body); a
\* well-formed GET or HEAD for a path that does not exist returns 404 (any
\* other method 501).
C2_SameAsInheritedGetFile200 ==
  /\ SameAsInherited
  /\ (lastReq # <<>> /\ WellFormed(lastReq[1])) =>
       LET req == lastReq[1]
       IN  /\ (req.target = "file" /\ req.command = "GET" /\ ~req.ims) =>
                (StatusOf(wire) = 200 /\ BodyOf(wire) = <<Body("file")>>)
           /\ (req.target = "file" /\ req.command = "HEAD" /\ ~req.ims) =>
                (StatusOf(wire) = 200 /\ BodyOf(wire) = <<>>)
           /\ (req.target = "file" /\ req.command \in {"GET", "HEAD"} /\ req.ims) =>
                (StatusOf(wire) = 304 /\ BodyOf(wire) = <<>>)
           /\ (req.target = "missing" /\ req.command \in {"GET", "HEAD"}) =>
                StatusOf(wire) = 404
           /\ req.command \notin {"GET", "HEAD"} => StatusOf(wire) = 501

\* C2 witness: a GET for an existing file answered 200 with the file's bytes
\* and the two added headers.
C2_Witness ==
  /\ lastReq = <<Request(3, "HTTP/1.0", "GET", "file", FALSE, FALSE)>>
  /\ StatusOf(wire) = 200
  /\ BodyOf(wire) = <<Body("file")>>
  /\ wire # InheritedRespond(lastReq[1])


(* ----------------------------- the lifecycle ---------------------------- *)

\* The lifecycle state of a process: STARTING from its start to the end of
\* the banner, SERVING inside serve_forever, TERMINATED once it has exited.
Lifecycle(p) ==
  CASE pc[p] = "idle" -> "NONE"
    [] pc[p] \in {"chdir", "bind", "banner", "listdir"} -> "STARTING"
    [] pc[p] \in {"select", "handling"} -> "SERVING"
    [] OTHER -> "TERMINATED"

\* The processes that hold a bound socket.
Bound == {p \in Procs : pc[p] \in {"banner", "listdir", "select", "handling"}}

Did(p, event) == event \in Range(trace[p])

\* C3: an instance that tries to bind while another instance listens on the
\* port ends at once with exit status 1 and a logged error, never holds the
\* port, never waits for it, and leaves the listening instance, its queue and
\* its connections as they were.
C3_SecondInstanceFailsFast ==
  /\ [](Cardinality(Bound) <= 1)
  /\ [](\A q \in Procs : pc[q] = "bind" => ENABLED (BindSucceeds(q) \/ BindFails(q)))
  /\ [][\A q \in Procs :
         (pc[q] = "bind" /\ listener # 0 /\ pc'[q] # "bind" /\ cause'[q] # "signal") =>
           /\ pc'[q] = "done"
           /\ exit'[q] = <<1>>
           /\ Last(trace'[q]) = "server_error"
           /\ ~Did(q, "serve")'
           /\ listener' = listener
           /\ pc'[listener] = pc[listener]
           /\ <<conn, backlog, accepted, lingering>>' = <<conn, backlog, accepted, lingering>>]_vars

\* C3 witness: one instance serves, no connection was ever opened, and another
\* instance has ended with status 1 and a logged error without binding.
C3_Witness ==
  \E p, q \in Procs :
    /\ listener = p /\ pc[p] = "select"
    /\ \A c \in Conns : conn[c] = "new"
    /\ pc[q] = "done" /\ exit[q] = <<1>> /\ trace[q] = <<"chdir", "server_error">>

\* C4: an instance started after a serving instance has terminated, and
\* binding while no instance listens on the port, binds successfully.
C4_RestartBinds ==
  [][\A q \in Procs :
       (/\ pc[q] = "bind"
        /\ listener = 0
        /\ \E p \in before[q] : Did(p, "serve")
        /\ pc'[q] # "bind"
        /\ cause'[q] # "signal") => pc'[q] = "banner"]_vars

\* C5: every process ended by an exception during startup was ended by the
\* except clause: its last output is the logged error, its exit status is 1.
C5_StartupFailuresCaught ==
  \A p \in Procs :
    (pc[p] = "done" /\ cause[p] = "exception" /\ ~Did(p, "serve")) =>
      (Last(trace[p]) = "server_error" /\ exit[p] = <<1>>)

\* C6 as stated: the exit status is 0 after an external signal, 1 after an
\* exception, and nothing else.
C6_ExitZeroOnSignal ==
  \A p \in Procs :
    pc[p] = "done" =>
      /\ cause[p] = "signal" => exit[p] = <<0>>
      /\ cause[p] = "exception" => exit[p] = <<1>>
      /\ exit[p] \in {<<0>>, <<1>>}

\* C6 amended: the exit status is 1 after an exception during startup or
\* serving; after an external signal it is the platform's status for that
\* signal (130 for SIGINT, 143 for SIGTERM), never 0: no run of the program
\* ends with status 0.  A process that has not ended has no exit status.
C6_ExitStatusByCause ==
  \A p \in Procs :
    /\ pc[p] # "done" => (exit[p] = <<>> /\ cause[p] = "none")
    /\ pc[p] = "done" =>
         /\ cause[p] \in {"signal", "exception"}
         /\ cause[p] = "exception" => exit[p] = <<1>>
         /\ cause[p] = "signal" => (Len(exit[p]) = 1 /\ exit[p][1] \in SignalStatuses)
         /\ exit[p] # <<0>>

\* C6 witness: one process ended by a signal, another by an exception.
C6_Witness ==
  \E p, q \in Procs :
    /\ pc[p] = "done" /\ cause[p] = "signal" /\ exit[p] = <<130>>
    /\ pc[q] = "done" /\ cause[q] = "exception" /\ exit[q] = <<1>>

\* The transitions every step may make in the lifecycle of one process.
LifecycleStep(p) ==
  \/ Lifecycle(p)' = Lifecycle(p)
  \/ Lifecycle(p) = "NONE" /\ Lifecycle(p)' = "STARTING"
  \/ Lifecycle(p) = "STARTING" /\ Lifecycle(p)' = "SERVING" /\ listener' = p
  \/ Lifecycle(p) = "STARTING" /\ Lifecycle(p)' = "TERMINATED"
  \/ Lifecycle(p) = "SERVING" /\ Lifecycle(p)' = "TERMINATED"

\* C7 as stated, its last part: a process whose bind succeeded is not ended
\* by an exception before it has entered SERVING.
C7_NoExceptionBetweenBindAndServing ==
  \A p \in Procs :
    (pc[p] = "done" /\ cause[p] = "exception" /\ Did(p, "bind")) => Did(p, "serve")

\* C7 amended: the lifecycle has the states STARTING, SERVING, TERMINATED and
\* the transitions STARTING -> SERVING (with the socket bound), STARTING ->
\* TERMINATED and SERVING -> TERMINATED only; TERMINATED is never left and
\* SERVING is never followed by STARTING.  A process whose bind succeeded can
\* still be ended by an exception before SERVING: when listing the directory
\* for the banner fails, it has printed the banner's first lines, releases the
\* port, logs the error and exits with status 1.
C7_Lifecycle ==
  /\ [][\A p \in Procs : LifecycleStep(p)]_vars
  /\ [](\A p \in Procs :
          (pc[p] = "done" /\ cause[p] = "exception" /\ Did(p, "bind") /\ ~Did(p, "serve")) =>
            /\ trace[p] = <<"chdir", "bind", "banner", "server_error">>
            /\ exit[p] = <<1>>
            /\ listener # p
            /\ dirState = "unlistable")

\* C7 witness: a process that bound the port and was ended by the failing
\* directory listing before it entered SERVING.
C7_Witness ==
  \E p \in Procs :
    /\ pc[p] = "done" /\ cause[p] = "exception" /\ exit[p] = <<1>>
    /\ Did(p, "bind") /\ ~Did(p, "serve")
    /\ listener = 0

StartupOrder == <<"chdir", "bind", "banner", "listing", "serve">>

IsStartupEvent(e) == e \in Range(StartupOrder)

\* C9: what a process has done is a prefix of chdir, bind, banner, directory
\* listing, serve (followed at most by the report of its failure); its working
\* directory is the inherited one before chdir and WorkDir ever after; no
\* banner line is printed unless the bind succeeded; a connection is accepted
\* only after the whole banner; every request is resolved against WorkDir.
C9_StartupOrder ==
  \A p \in Procs :
    LET done == SelectSeq(trace[p], IsStartupEvent)
    IN  /\ Len(done) <= Len(StartupOrder)
        /\ done = SubSeq(StartupOrder, 1, Len(done))
        /\ \A i \in 1..Len(trace[p]) : ~IsStartupEvent(trace[p][i]) => i = Len(trace[p])
        /\ cwd[p] = IF Did(p, "chdir") THEN WorkDir ELSE InheritedDir
        /\ (Did(p, "banner") \/ Did(p, "listing")) => Did(p, "bind")
        /\ accepted[p] # <<>> => (Did(p, "banner") /\ Did(p, "listing") /\ Did(p, "serve"))
        /\ listener = p => Did(p, "bind")
        /\ roots[p] \subseteq {WorkDir}
        /\ accepted[p] = <<>> => roots[p] = {}

\* C9 witness: one process has answered a request out of WorkDir after its
\* banner, and another has failed to bind and has printed no banner line.
C9_Witness ==
  \E p, q \in Procs :
    /\ roots[p] = {WorkDir} /\ Did(p, "banner")
    /\ trace[q] = <<"chdir", "server_error">>

\* C10: a process handles at most one connection at a time; every connection
\* it accepted before the latest one has been answered and shut down, so the
\* connections are handled one after another in the order of their
\* acceptance; no connection is accepted twice or by two processes.
C10_OneConnectionAtATime ==
  /\ \A p \in Procs :
       /\ Cardinality(Current(p)) <= 1
       /\ \A i \in 1..Len(accepted[p]) :
            /\ i < Len(accepted[p]) => conn[accepted[p][i]] = "closed"
            /\ \A j \in 1..Len(accepted[p]) : accepted[p][i] = accepted[p][j] => i = j
            /\ \A q \in Procs : q # p => accepted[p][i] \notin Range(accepted[q])
       /\ pc[p] = "handling" <=> Current(p) # {}
       /\ Current(p) # {} => Current(p) = {Last(accepted[p])}
  /\ Cardinality({c \in Conns : conn[c] = "handling"}) <= 1
  /\ \A c \in Conns : conn[c] \in {"handling", "closed"} => \E p \in Procs : c \in Range(accepted[p])

\* C10 witness: a process handles its second connection, the first one
\* answered and shut down, while a third waits in the queue.
C10_Witness ==
  \E p \in Procs :
    /\ Len(accepted[p]) = 2
    /\ conn[accepted[p][1]] = "closed"
    /\ conn[accepted[p][2]] = "handling"

=============================================================================
